---- MODULE Spec2Model ----
(***************************************************************************)
(* The browser-mediated login flow of aio-lib-core-ims-oauth: login()      *)
(* starts a local HTTP server, arms a timeout, and settles its promise     *)
(* from the first request the server's 'request' listener handles.         *)
(*                                                                         *)
(* JavaScript values are tagged records: [t |-> "undefined"],              *)
(* [t |-> "null"], [t |-> "string", v |-> s], [t |-> "number", v |-> n],   *)
(* [t |-> "object", props |-> f] and [t |-> "error", message |-> s].       *)
(* Texts (query values, JSON documents, messages) are TLA+ strings.        *)
(***************************************************************************)
EXTENDS Integers, Sequences, FiniteSets, TLC

VARIABLES
  pc,         \* where login() is: "awaitServer", "serverReady", "waiting", "crashed"
  options,    \* the options object login() was called with
  id,         \* const id = randomId()
  server,     \* the http.Server: listening, port, closeCalls, earlyClose, hasHandler
  conns,      \* connections the listener has accepted and that are still open
  timer,      \* the setTimeout timer: state, delay (ms), elapsed (ms)
  result,     \* the promise login() returns: status, value
  responses,  \* the responses written so far, in order
  delivered,  \* number of 'request' events delivered to the listener
  lastReq,    \* history: the request of the latest 'request' event
  lastPending,\* history: whether the promise was pending when lastReq arrived
  settledBy,  \* history: what settled the promise (a request, or the timer)
  uri,        \* the authorization URL shown and opened in the browser
  cliEnv,     \* helpers: the globally configured CLI environment
  probe,      \* helpers: the latest call of getImsCliOAuthUrl and its result
  post        \* helpers: one handlePOST call: its request stream and outcome

vars == <<pc, options, id, server, conns, timer, result, responses,
          delivered, lastReq, lastPending, settledBy, uri, cliEnv, probe, post>>

helperVars == <<cliEnv, probe, post>>

loginVars == <<pc, options, id, server, conns, timer, result, responses,
               delivered, lastReq, lastPending, settledBy, uri>>

(***************************************************************************)
(* Bounds of the model.                                                    *)
(***************************************************************************)
MaxTimeoutOpt == 2
MaxRequests == 2
MaxConns == 2
MaxChunk == 4

(***************************************************************************)
(* JavaScript values.                                                      *)
(***************************************************************************)
Undef == [t |-> "undefined"]
Null == [t |-> "null"]
Str(s) == [t |-> "string", v |-> s]
Num(n) == [t |-> "number", v |-> n]
Obj(f) == [t |-> "object", props |-> f]
Err(m) == [t |-> "error", message |-> m]

\* o.k for an object o: undefined when o has no own property k, and for a
\* primitive other than null/undefined (a string or number has no such field).
Get(o, k) ==
  IF o.t = "object" /\ k \in DOMAIN o.props THEN o.props[k] ELSE Undef

\* Reading a property of null or undefined throws a TypeError.
PropertyReadThrows(o) == o.t \in {"null", "undefined"}

\* JavaScript truthiness of the values the flow tests.
Truthy(v) ==
  CASE v.t = "undefined" -> FALSE
    [] v.t = "null" -> FALSE
    [] v.t = "string" -> v.v # ""
    [] v.t = "number" -> v.v # 0
    [] OTHER -> TRUE

\* a === b on primitives.
StrictEq(a, b) ==
  /\ a.t = b.t
  /\ CASE a.t = "string" -> a.v = b.v
       [] a.t = "number" -> a.v = b.v
       [] a.t \in {"undefined", "null"} -> TRUE
       [] OTHER -> FALSE

\* `${v}` in a template literal.
TemplateText(v) ==
  CASE v.t = "undefined" -> "undefined"
    [] v.t = "null" -> "null"
    [] v.t = "string" -> v.v
    [] v.t = "number" -> ToString(v.v)
    [] OTHER -> "[object Object]"

(***************************************************************************)
(* Program constants of login.js.                                          *)
(***************************************************************************)
AUTH_TIMEOUT_SECONDS == 120
MsPerSecond == 1000

\* AUTH_URL, by its components.
AUTH_URL ==
  [scheme |-> "https", host |-> "adobeioruntime.net", port |-> "",
   path |-> "/api/v1/web/53444_51636/default/appLogin/"]

\* new URL(u).origin: scheme, host and (when given) port; never the path.
UrlOrigin(u) ==
  u.scheme \o "://" \o u.host \o (IF u.port = "" THEN "" ELSE ":" \o u.port)

(***************************************************************************)
(* The texts the browser can send.                                         *)
(***************************************************************************)
\* Session ids randomId() can return (8 characters each).
Ids == {"k3x9q2ab", "p7m4z8cd"}

AuthCodes == {"my-auth-code"}
Tokens == {"my-access-token"}

\* JSON.stringify({ id: i })
IdStateText(i) == "{\"id\":\"" \o i \o "\"}"

\* JSON.stringify({ access_token: tok })
TokenText(tok) == "{\"access_token\":\"" \o tok \o "\"}"

\* JSON.parse(s) on the texts of this model: [ok, val]; ok = FALSE is a
\* SyntaxError.  Anything that is not one of the JSON documents below (a bare
\* word such as my-auth-code, the empty text, a lone brace) does not parse.
JsonParse(s) ==
  IF \E i \in Ids : s = IdStateText(i)
    THEN [ok |-> TRUE,
          val |-> Obj([k \in {"id"} |-> Str(CHOOSE i \in Ids : s = IdStateText(i))])]
  ELSE IF \E tok \in Tokens : s = TokenText(tok)
    THEN [ok |-> TRUE,
          val |-> Obj([k \in {"access_token"} |->
                        Str(CHOOSE tok \in Tokens : s = TokenText(tok))])]
  ELSE IF s = "{}" THEN [ok |-> TRUE, val |-> Obj([k \in {} |-> Undef])]
  ELSE IF s = "null" THEN [ok |-> TRUE, val |-> Null]
  ELSE [ok |-> FALSE, val |-> Undef]

\* stringToJson(value): JSON.parse, and {} when it throws (JSON.parse of
\* undefined throws as well).
stringToJson(value) ==
  IF value.t = "string" /\ JsonParse(value.v).ok
    THEN JsonParse(value.v).val
    ELSE Obj([k \in {} |-> Undef])

\* A query string (or a URL-encoded body) is a sequence of <<key, text>>
\* pairs.  querystring.stringify of the fields code_type, code, state, in
\* that order; a field that is undefined is not emitted.
QsField(k, v) == IF v.t = "undefined" THEN <<>> ELSE <<<<k, v.v>>>>

QsStringify(codeType, code, state) ==
  QsField("code_type", codeType) \o QsField("code", code) \o QsField("state", state)

\* querystring.parse: an object with one string property per key.
QsParse(q) ==
  Obj([k \in {q[i][1] : i \in DOMAIN q} |->
        Str(q[CHOOSE i \in DOMAIN q : q[i][1] = k /\ \A j \in 1..(i - 1) : q[j][1] # k][2])])

\* getQueryDataFromRequest(request): the parsed query string of request.url.
\* It returns synchronously, so it cannot hold anything of the request body.
getQueryDataFromRequest(request) == QsParse(request.query)

\* codeTransform(code, codeType) of helpers: the raw string for auth_code,
\* the parsed JSON for access_token.
codeTransform(code, codeType) ==
  IF StrictEq(codeType, Str("access_token")) /\ code.t = "string" /\ JsonParse(code.v).ok
    THEN JsonParse(code.v).val
    ELSE code

(***************************************************************************)
(* The requests the model delivers.                                        *)
(***************************************************************************)
Methods == {"GET", "POST", "PUT", "OPTIONS"}

\* <<code_type, code>> as a caller may combine them.
CodeCombos ==
  {<<Undef, Undef>>, <<Str("auth_code"), Str("")>>}
    \cup {<<Str("auth_code"), Str(c)>> : c \in AuthCodes}
    \cup {<<Undef, Str(c)>> : c \in AuthCodes}
    \cup {<<Str("access_token"), Str(TokenText(tok))>> : tok \in Tokens}

StateValues ==
  {Undef, Str("{"), Str("null"), Str("{}")} \cup {Str(IdStateText(i)) : i \in Ids}

Payloads == {QsStringify(cc[1], cc[2], st) : cc \in CodeCombos, st \in StateValues}

\* A request carries its payload in the URL's query string, or (POST) in
\* its URL-encoded body.
Request(method, query, body) == [method |-> method, query |-> query, body |-> body]

\* The payload {code_type: 'auth_code', code, state: {id: i}} of the tests.
TestPayload(i) ==
  QsStringify(Str("auth_code"), Str(CHOOSE c \in AuthCodes : TRUE), Str(IdStateText(i)))

Requests ==
  {Request("GET", p, <<>>) : p \in Payloads}
    \cup {Request("POST", <<>>, p) : p \in Payloads}
    \cup {Request(m, p, <<>>) : m \in {"POST", "PUT", "OPTIONS"},
                                p \in {<<>>} \cup {TestPayload(i) : i \in Ids}}

\* The requests delivered once the promise has settled: the listener no
\* longer distinguishes them, except for the one it throws on.
FollowUps ==
  {Request("GET", <<>>, <<>>), Request("OPTIONS", <<>>, <<>>)}
    \cup {Request("GET", TestPayload(i), <<>>) : i \in Ids}
    \cup {Request("GET", QsStringify(Undef, Str(c), Str("null")), <<>>) : c \in AuthCodes}

NoRequest == [method |-> "", query |-> <<>>, body |-> <<>>]

(***************************************************************************)
(* login(options): the pieces of its body.                                 *)
(***************************************************************************)
\* const { timeout = AUTH_TIMEOUT_SECONDS } = options
TimeoutOf(opts) ==
  IF opts.timeout.t = "undefined" THEN AUTH_TIMEOUT_SECONDS ELSE opts.timeout.v

\* Mutant of TimerDelay: the seconds are handed to setTimeout as they are.
TimerDelay_NotScaled(timeout) == timeout

\* The delay handed to setTimeout: timeout * 1000.
TimerDelay(timeout) == timeout * MsPerSecond

\* new Error(`Timed out after ${timeout} seconds.`)
TimeoutError(timeout) ==
  Err("Timed out after " \o TemplateText(Num(timeout)) \o " seconds.")

\* new Error(`error code=${queryData.code}`)
RequestError(queryData) ==
  Err("error code=" \o TemplateText(Get(queryData, "code")))

\* queryData.code && state.id === id.  The right operand is evaluated only
\* when queryData.code is truthy, and reading state.id throws when state is
\* null.
HandlerThrows(queryData, state) ==
  Truthy(Get(queryData, "code")) /\ PropertyReadThrows(state)

\* Mutant of SessionValid: the session id is not compared.
SessionValid_NoIdCheck(queryData, state, sid) ==
  Truthy(Get(queryData, "code"))

SessionValid(queryData, state, sid) ==
  Truthy(Get(queryData, "code")) /\ StrictEq(Get(state, "id"), Str(sid))

\* Mutant of Settle: a later resolve or reject replaces the outcome.
Settle_Overwrite(p, status, value) == [status |-> status, value |-> value]

\* A promise settles once: resolve and reject on a settled promise do nothing.
Settle(p, status, value) ==
  IF p.status = "pending" THEN [status |-> status, value |-> value] ELSE p

\* What the listener does to the promise for one request.
SettleByRequest(p, request, sid) ==
  LET queryData == getQueryDataFromRequest(request)
      state == stringToJson(Get(queryData, "state"))
  IN IF SessionValid(queryData, state, sid)
       THEN Settle(p, "resolved", Get(queryData, "code"))
       ELSE Settle(p, "rejected", RequestError(queryData))

\* Mutant of AuthParams: scope declared before client_id.
AuthParams_ScopeFirst(opts, sid, port) ==
  <<<<"id", Str(sid)>>, <<"port", Num(port)>>, <<"scope", opts.scope>>,
    <<"client_id", opts.client_id>>, <<"redirect_uri", opts.redirect_uri>>>>

\* The parameters login hands to authSiteUrl, in the order it declares them:
\* { id, port: serverPort, client_id, scope, redirect_uri }.
AuthParams(opts, sid, port) ==
  <<<<"id", Str(sid)>>, <<"port", Num(port)>>, <<"client_id", opts.client_id>>,
    <<"scope", opts.scope>>, <<"redirect_uri", opts.redirect_uri>>>>

\* The query of authSiteUrl: the parameters in their order, as text, without
\* those whose value is undefined or null.
RECURSIVE QueryOf(_)
QueryOf(params) ==
  IF params = <<>> THEN <<>>
  ELSE LET p == Head(params)
       IN (IF p[2].t \in {"undefined", "null"}
             THEN <<>> ELSE <<<<p[1], TemplateText(p[2])>>>>)
            \o QueryOf(Tail(params))

\* authSiteUrl(url, params): url + '?' + the query.
authSiteUrl(url, params) == [base |-> url, query |-> QueryOf(params)]

NoUri == [base |-> [scheme |-> "", host |-> "", port |-> "", path |-> ""], query |-> <<>>]

\* Mutant of ClearTimeout: the timer is left pending.
ClearTimeout_Forgotten(t) == t

\* clearTimeout(timerId): a pending timer is cancelled (and no longer
\* measures time); a timer that fired or was cancelled is left as it is.
ClearTimeout(t) ==
  IF t.state = "armed" THEN [t EXCEPT !.state = "cleared", !.elapsed = 0] ELSE t

\* The http.ServerResponse of a request, and what the listener writes to it.
NewResponse == [statusCode |-> 200, headers |-> <<>>, body |-> "", ended |-> FALSE]

SetStatus(r, code) == [r EXCEPT !.statusCode = code]

SetHeader(r, name, value) == [r EXCEPT !.headers = Append(@, <<name, value>>)]

End(r, text) == [r EXCEPT !.body = text, !.ended = TRUE]

HandlerResponse ==
  End(SetHeader(SetStatus(NewResponse, 200), "Content-Type", "text/plain"),
      "You are now signed in, please close this window.\n")

\* server.close(): the listener stops accepting connections.
ServerClose(s) == [s EXCEPT !.listening = FALSE, !.closeCalls = @ + 1]

\* Mutant of ResponseAtClose: server.close() moved before the response is
\* written.
ResponseAtClose_BeforeEnd == NewResponse

\* The response of the request being handled, as it is when the listener
\* calls server.close(): close comes after response.end.
ResponseAtClose == HandlerResponse

\* server.close() called while the response of the request being handled is
\* as given; earlyClose records a close that came before that response ended.
CloseAfter(s, resp) == [ServerClose(s) EXCEPT !.earlyClose = @ \/ ~resp.ended]

\* Mutant of AwaitDone: createServer() is not awaited.
AwaitDone_NoAwait == pc \in {"awaitServer", "serverReady"}

\* `await createServer()`: login goes on once the promise has resolved.
AwaitDone == pc = "serverReady"

(***************************************************************************)
(* The helpers the tests exercise on their own.                            *)
(***************************************************************************)
STAGE_ENV == "stage"
PROD_ENV == "prod"

\* IMS_CLI_OAUTH_URL: the authorization endpoint of each environment.
IMS_CLI_OAUTH_URL ==
  [env \in {STAGE_ENV, PROD_ENV} |->
    [scheme |-> "https",
     host |-> IF env = PROD_ENV THEN "aio-login.adobeioruntime.net"
                                ELSE "aio-login-stage.adobeioruntime.net",
     port |-> "", path |-> "/api/v1/web/default/applogin"]]

\* getCliEnv(): the configured environment, prod when none is configured.
getCliEnv(configured) == IF configured.t = "string" THEN configured.v ELSE PROD_ENV

\* Mutant of ResolveEnv: the global configuration wins over the parameter.
ResolveEnv_GlobalFirst(env, configured) ==
  IF configured.t = "string" THEN configured.v
  ELSE IF env.t = "string" THEN env.v ELSE PROD_ENV

\* The environment of a call: the parameter, else the global configuration.
ResolveEnv(env, configured) ==
  IF env.t = "string" THEN env.v ELSE getCliEnv(configured)

\* getImsCliOAuthUrl(env)
getImsCliOAuthUrl(env, configured) == IMS_CLI_OAUTH_URL[ResolveEnv(env, configured)]

NoProbe == [called |-> FALSE, env |-> Undef, url |-> AUTH_URL]

\* A URL-encoded body as the tokens of its text: key = value & key = value.
RECURSIVE UrlEncode(_)
UrlEncode(pairs) ==
  IF pairs = <<>> THEN <<>>
  ELSE (IF Head(pairs)[2] = "" THEN <<Head(pairs)[1], "=">>
                               ELSE <<Head(pairs)[1], "=", Head(pairs)[2]>>)
         \o (IF Tail(pairs) = <<>> THEN <<>> ELSE <<"&">> \o UrlEncode(Tail(pairs)))

\* The tokens between the "&" separators.
RECURSIVE Groups(_, _)
Groups(tokens, cur) ==
  IF tokens = <<>> THEN (IF cur = <<>> THEN <<>> ELSE <<cur>>)
  ELSE IF Head(tokens) = "&"
    THEN (IF cur = <<>> THEN <<>> ELSE <<cur>>) \o Groups(Tail(tokens), <<>>)
    ELSE Groups(Tail(tokens), Append(cur, Head(tokens)))

\* querystring.parse of a body text: its <<key, value>> pairs.
UrlDecode(tokens) ==
  LET gs == Groups(tokens, <<>>)
  IN [i \in 1..Len(gs) |-> <<gs[i][1], IF Len(gs[i]) >= 3 THEN gs[i][3] ELSE "">>]

\* Mutant of Accumulate: the chunk replaces what was received.
Accumulate_Overwrite(body, chunk) == chunk

\* handlePOST's 'data' listener: body += chunk.
Accumulate(body, chunk) == body \o chunk

\* The validation of handleGET and handlePOST, and what they settle with.
HandlerOutcome(queryData, sid) ==
  LET state == stringToJson(Get(queryData, "state"))
  IN IF Truthy(Get(queryData, "code")) /\ state.t = "object"
          /\ StrictEq(Get(state, "id"), Str(sid))
       THEN [status |-> "resolved",
             value |-> codeTransform(Get(queryData, "code"), Get(queryData, "code_type"))]
       ELSE [status |-> "rejected",
             value |-> Err("[IMSOAuthSDK:HTTP_ERROR] error code="
                             \o TemplateText(Get(queryData, "code")))]

NoPost ==
  [id |-> "", wire |-> <<>>, sent |-> 0, chunks |-> 0, body |-> <<>>,
   ended |-> FALSE, result |-> [status |-> "pending", value |-> Undef],
   response |-> NewResponse, doneCalls |-> 0]

\* handlePOST(request, response, id, done) has been called and waits for the
\* body of the request, whose text is on the wire.
NewPost(sid, payload) == [NoPost EXCEPT !.id = sid, !.wire = UrlEncode(payload)]


(***************************************************************************)
(* The state machine.                                                      *)
(***************************************************************************)
TimeoutOptions == {Undef} \cup {Num(n) : n \in 1..MaxTimeoutOpt}

\* The ports the operating system may assign to listen(0).
Ports == {49152, 50505}

\* The OAuth2 options of a caller: all omitted, or all given.
OAuthOptions ==
  {[client_id |-> Undef, scope |-> Undef, redirect_uri |-> Undef],
   [client_id |-> Str("my-client"), scope |-> Str("openid"),
    redirect_uri |-> Str("https://example.test/cb")]}

\* Every combination of an omitted, a null and a given OAuth2 option.
AllOAuthOptions ==
  [client_id : {Undef, Null, Str("my-client")},
   scope : {Undef, Null, Str("openid")},
   redirect_uri : {Undef, Null, Str("https://example.test/cb")}]

Options(timeouts, oauth) ==
  {[timeout |-> t, client_id |-> o.client_id, scope |-> o.scope,
    redirect_uri |-> o.redirect_uri] : t \in timeouts, o \in oauth}

\* No helper is exercised on its own.
HelpersIdle == cliEnv = Undef /\ probe = NoProbe /\ post = NoPost

\* The state after login(opts) has run up to `await createServer()`.
InitWith(opts) ==
  /\ pc = "awaitServer"
  /\ options \in opts
  /\ id \in Ids
  /\ server = [listening |-> FALSE, port |-> 0, closeCalls |-> 0,
               earlyClose |-> FALSE, hasHandler |-> FALSE]
  /\ conns = 0
  /\ timer = [state |-> "none", delay |-> 0, elapsed |-> 0]
  /\ result = [status |-> "pending", value |-> Undef]
  /\ responses = <<>>
  /\ delivered = 0
  /\ lastReq = NoRequest
  /\ lastPending = FALSE
  /\ settledBy = [kind |-> "none", req |-> NoRequest]
  /\ uri = NoUri

\* login(options) has run up to `await createServer()`.
Init == InitWith(Options(TimeoutOptions, OAuthOptions)) /\ HelpersIdle

\* createServer(): the server's 'listening' event resolves its promise.
ServerListening ==
  /\ UNCHANGED helperVars
  /\ pc = "awaitServer"
  /\ pc' = "serverReady"
  /\ \E port \in Ports : server' = [server EXCEPT !.listening = TRUE, !.port = port]
  /\ UNCHANGED <<options, id, conns, timer, result, responses, delivered,
                 lastReq, lastPending, settledBy, uri>>

\* login() after the await: it reads the port, builds the URL, and the
\* promise executor shows and opens it, arms the timer and registers the
\* 'request' listener.
LoginResume ==
  /\ UNCHANGED helperVars
  /\ AwaitDone
  /\ pc' = "waiting"
  /\ uri' = authSiteUrl(AUTH_URL, AuthParams(options, id, server.port))
  /\ timer' = [state |-> "armed", delay |-> TimerDelay(TimeoutOf(options)),
               elapsed |-> 0]
  /\ server' = [server EXCEPT !.hasHandler = TRUE]
  /\ UNCHANGED <<options, id, conns, result, responses, delivered,
                 lastReq, lastPending, settledBy>>

\* A client connects; only a listening server accepts.
Connect ==
  /\ UNCHANGED helperVars
  /\ pc # "crashed"
  /\ server.listening
  /\ conns < MaxConns
  /\ conns' = conns + 1
  /\ UNCHANGED <<pc, options, id, server, timer, result, responses, delivered,
                 lastReq, lastPending, settledBy, uri>>

\* One second passes on the pending timer.
Tick ==
  /\ UNCHANGED helperVars
  /\ pc = "waiting"
  /\ timer.state = "armed"
  /\ timer.elapsed < timer.delay
  /\ timer' = [timer EXCEPT !.elapsed = @ + MsPerSecond]
  /\ UNCHANGED <<pc, options, id, server, conns, result, responses, delivered,
                 lastReq, lastPending, settledBy, uri>>

\* The setTimeout callback.
TimerFire ==
  /\ UNCHANGED helperVars
  /\ pc = "waiting"
  /\ timer.state = "armed"
  /\ timer.elapsed >= timer.delay
  /\ timer' = [timer EXCEPT !.state = "fired"]
  /\ result' = Settle(result, "rejected", TimeoutError(TimeoutOf(options)))
  /\ settledBy' = IF result.status = "pending"
                    THEN [kind |-> "timer", req |-> NoRequest] ELSE settledBy
  /\ UNCHANGED <<pc, options, id, server, conns, responses, delivered,
                 lastReq, lastPending, uri>>

\* The 'request' listener, for a request arriving on an open connection.
\* server.close() keeps the open connections, or (newer Node versions)
\* drops the idle ones.
HandleRequest(request) ==
  /\ UNCHANGED helperVars
  /\ pc = "waiting"
  /\ server.hasHandler
  /\ conns > 0
  /\ delivered < MaxRequests
  /\ result.status # "pending" => request \in FollowUps
  /\ delivered' = delivered + 1
  /\ lastReq' = request
  /\ lastPending' = (result.status = "pending")
  /\ LET queryData == getQueryDataFromRequest(request)
         state == stringToJson(Get(queryData, "state"))
     IN IF HandlerThrows(queryData, state)
          THEN /\ pc' = "crashed"
               /\ UNCHANGED <<server, conns, timer, result, responses, settledBy>>
          ELSE /\ timer' = ClearTimeout(timer)
               /\ result' = SettleByRequest(result, request, id)
               /\ settledBy' = IF result.status = "pending"
                                 THEN [kind |-> "request", req |-> request]
                                 ELSE settledBy
               /\ responses' = Append(responses, HandlerResponse)
               /\ server' = CloseAfter(server, ResponseAtClose)
               /\ conns' \in {conns, 0}
               /\ pc' = pc
  /\ UNCHANGED <<options, id, uri>>

Next ==
  \/ ServerListening
  \/ LoginResume
  \/ Connect
  \/ Tick
  \/ TimerFire
  \/ \E request \in Requests : HandleRequest(request)

Spec == Init /\ [][Next]_vars

\* The event loop runs a due timer, and time passes.
FairSpec == Spec /\ WF_vars(Tick) /\ WF_vars(TimerFire)

\* login called with every combination of the OAuth2 options.
UrlInit == InitWith(Options({Num(1)}, AllOAuthOptions)) /\ HelpersIdle

UrlSpec == UrlInit /\ [][Next]_vars

(***************************************************************************)
(* The helpers on their own, as the tests call them: login is not running. *)
(***************************************************************************)
EnvParams == {Undef, Str(STAGE_ENV), Str(PROD_ENV)}

HelperInit ==
  /\ InitWith(Options({Undef}, {[client_id |-> Undef, scope |-> Undef,
                                 redirect_uri |-> Undef]}))
  /\ cliEnv \in EnvParams
  /\ probe = NoProbe
  /\ \E payload \in Payloads : post = NewPost(id, payload)

\* getImsCliOAuthUrl(env) is called.
CallGetImsCliOAuthUrl(env) ==
  /\ probe' = [called |-> TRUE, env |-> env, url |-> getImsCliOAuthUrl(env, cliEnv)]
  /\ UNCHANGED <<loginVars, cliEnv, post>>

\* The request stream emits 'data' with the next n tokens of the body.
PostData(n) ==
  /\ ~post.ended
  /\ post.sent + n <= Len(post.wire)
  /\ post' = [post EXCEPT
                !.body = Accumulate(@, SubSeq(post.wire, post.sent + 1, post.sent + n)),
                !.sent = @ + n,
                !.chunks = @ + 1]
  /\ UNCHANGED <<loginVars, cliEnv, probe>>

\* The request stream emits 'end': handlePOST parses what it accumulated,
\* settles, writes the response and calls done.
PostEnd ==
  /\ ~post.ended
  /\ post.sent = Len(post.wire)
  /\ post' = [post EXCEPT
                !.ended = TRUE,
                !.result = HandlerOutcome(QsParse(UrlDecode(post.body)), post.id),
                !.response = End(SetStatus(@, 200), "You are now signed in, please close this window.\n"),
                !.doneCalls = @ + 1]
  /\ UNCHANGED <<loginVars, cliEnv, probe>>

HelperNext ==
  \/ \E env \in EnvParams : CallGetImsCliOAuthUrl(env)
  \/ \E n \in 1..MaxChunk : PostData(n)
  \/ PostEnd

HelperSpec == HelperInit /\ [][HelperNext]_vars

(***************************************************************************)
(* What a request carries, read off its text (not off the listener).       *)
(***************************************************************************)
Range(q) == {q[i] : i \in DOMAIN q}

\* The payload of a request: the body of a POST that has one, else the query.
PayloadOf(request) ==
  IF request.method = "POST" /\ request.body # <<>> THEN request.body ELSE request.query

\* The text of the payload's code field, "undefined" when it has none.
CodeTextOf(q) ==
  IF \E pr \in Range(q) : pr[1] = "code"
    THEN (CHOOSE pr \in Range(q) : pr[1] = "code")[2]
    ELSE "undefined"

\* A non-empty code and a state that is the JSON of {id: sid}.
CarriesValid(q, sid) ==
  /\ \E pr \in Range(q) : pr[1] = "code" /\ pr[2] # ""
  /\ <<"state", IdStateText(sid)>> \in Range(q)

\* A state that is the JSON of {id: j} for another id j.
CarriesOtherId(q, sid) ==
  \E j \in Ids \ {sid} : <<"state", IdStateText(j)>> \in Range(q)

LastResponse(rs) == rs[Len(rs)]

(***************************************************************************)
(* C1.  login resolves only if a handled request carried a truthy code and *)
(* a state that is JSON whose id equals the session id; a request without  *)
(* them, handled while the promise is pending, never resolves it.          *)
(***************************************************************************)
C1_ResolvesOnlyOnValidRequest ==
  /\ result.status = "resolved" =>
       /\ settledBy.kind = "request"
       /\ CarriesValid(settledBy.req.query, id) \/ CarriesValid(settledBy.req.body, id)
  /\ (delivered > 0 /\ lastPending
        /\ ~CarriesValid(lastReq.query, id) /\ ~CarriesValid(lastReq.body, id))
       => result.status # "resolved"

C1_Witness ==
  /\ result.status = "resolved"
  /\ settledBy.kind = "request"
  /\ CarriesValid(settledBy.req.query, id)
  /\ delivered = MaxRequests
  /\ ~CarriesValid(lastReq.query, id)

(***************************************************************************)
(* C2.  With no request delivered, login never resolves, it settles only   *)
(* by the timeout, and once it waits it is eventually rejected with the    *)
(* error "Timed out after <timeout> seconds." when <timeout> seconds have  *)
(* passed on the timer, <timeout> being options.timeout, or 120 when the   *)
(* option is omitted.  Checked under FairSpec.                             *)
(***************************************************************************)
ClaimedTimeout == IF options.timeout.t = "undefined" THEN 120 ELSE options.timeout.v

TimedOut ==
  /\ result = [status |-> "rejected",
               value |-> Err("Timed out after " \o ToString(ClaimedTimeout) \o " seconds.")]
  /\ timer.state = "fired"
  /\ timer.elapsed = ClaimedTimeout * 1000

C2_TimeoutRejects ==
  /\ [](delivered = 0 => result.status # "resolved")
  /\ [](delivered = 0 /\ result.status # "pending" => TimedOut)
  /\ (pc = "waiting" /\ delivered = 0) ~> (delivered > 0 \/ TimedOut)

C2_Witness ==
  /\ delivered = 0
  /\ options.timeout.t = "undefined"
  /\ TimedOut

(***************************************************************************)
(* C3.  Whenever login's promise has settled, the server has been closed   *)
(* (it no longer listens).                                                 *)
(***************************************************************************)
C3_ClosedWhenSettled ==
  result.status # "pending" => ~server.listening

(***************************************************************************)
(* C4.  A request whose state id differs from the session id, handled      *)
(* while the promise is pending, rejects it with "error code=<code>" for   *)
(* the code the request carried, and ends the session: the timer is        *)
(* cancelled and the server closed.                                        *)
(***************************************************************************)
C4_MismatchRejectsNamingCode ==
  (delivered > 0 /\ lastPending /\ CarriesOtherId(PayloadOf(lastReq), id)) =>
    /\ result = [status |-> "rejected",
                 value |-> Err("error code=" \o CodeTextOf(PayloadOf(lastReq)))]
    /\ timer.state = "cleared"
    /\ ~server.listening

(***************************************************************************)
(* C5.  A valid payload settles the promise the same way whether it comes  *)
(* as the body of a POST or as the query of a GET: resolved, with the same *)
(* credential.                                                             *)
(***************************************************************************)
C5_PostSettlesAsGet ==
  (/\ settledBy.kind = "request"
   /\ settledBy.req.method = "POST"
   /\ CarriesValid(settledBy.req.body, id)) =>
    /\ result.status = "resolved"
    /\ result = SettleByRequest([status |-> "pending", value |-> Undef],
                                Request("GET", settledBy.req.body, <<>>), id)

(***************************************************************************)
(* C6.  A request with an unsupported method (PUT) is answered 405 with    *)
(* the response ended, and changes neither the promise nor the timer.      *)
(***************************************************************************)
C6_UnsupportedMethodUntouched ==
  [][(delivered' = delivered + 1 /\ lastReq'.method \notin {"GET", "POST", "OPTIONS"}) =>
       /\ Len(responses') = Len(responses) + 1
       /\ LastResponse(responses').statusCode = 405
       /\ LastResponse(responses').ended
       /\ result' = result
       /\ timer' = timer]_vars

(***************************************************************************)
(* C7.  An OPTIONS request has its response ended with no body, and        *)
(* changes neither the promise nor the timer.                              *)
(***************************************************************************)
C7_OptionsUntouched ==
  [][(delivered' = delivered + 1 /\ lastReq'.method = "OPTIONS") =>
       /\ Len(responses') = Len(responses) + 1
       /\ LastResponse(responses').ended
       /\ LastResponse(responses').body = ""
       /\ result' = result
       /\ timer' = timer]_vars

(***************************************************************************)
(* C8.  server.close() is called exactly once: never more than once, and   *)
(* once the promise has settled it has been called.                        *)
(***************************************************************************)
C8_ClosedExactlyOnce ==
  /\ server.closeCalls <= 1
  /\ result.status # "pending" => server.closeCalls = 1

(***************************************************************************)
(* C9.  The value login resolves with is the code transformed by its code  *)
(* type: the string itself for auth_code, the parsed JSON for access_token.*)
(***************************************************************************)
C9_ResolvesWithTransformedCode ==
  result.status = "resolved" =>
    LET queryData == QsParse(PayloadOf(settledBy.req))
    IN result.value = codeTransform(Get(queryData, "code"), Get(queryData, "code_type"))

(***************************************************************************)
(* C10.  Every response written carries the header                         *)
(* Access-Control-Allow-Origin with the origin of the authorization URL.   *)
(***************************************************************************)
C10_CorsHeaderOnEveryResponse ==
  \A i \in DOMAIN responses :
    <<"Access-Control-Allow-Origin", UrlOrigin(AUTH_URL)>> \in Range(responses[i].headers)

(***************************************************************************)
(* C12.  The authorization URL of the flow has no key for a client_id,     *)
(* scope or redirect_uri that is undefined or null, no "null" or           *)
(* "undefined" value, every given parameter with its value, and its keys   *)
(* in the order id, port, client_id, scope, redirect_uri.  Checked under   *)
(* UrlSpec.                                                                *)
(***************************************************************************)
DeclaredOrder == <<"id", "port", "client_id", "scope", "redirect_uri">>

PosOf(k) == CHOOSE i \in DOMAIN DeclaredOrder : DeclaredOrder[i] = k

C12_AuthUrlOmitsAbsentKeepsOrder ==
  uri # NoUri =>
    /\ uri.base = AUTH_URL
    /\ \A k \in {"client_id", "scope", "redirect_uri"} :
         IF options[k].t \in {"undefined", "null"}
           THEN ~\E pr \in Range(uri.query) : pr[1] = k
           ELSE <<k, options[k].v>> \in Range(uri.query)
    /\ <<"id", id>> \in Range(uri.query)
    /\ <<"port", ToString(server.port)>> \in Range(uri.query)
    /\ \A pr \in Range(uri.query) :
         pr[1] \in Range(DeclaredOrder) /\ pr[2] \notin {"null", "undefined"}
    /\ \A i, j \in DOMAIN uri.query :
         i < j => PosOf(uri.query[i][1]) < PosOf(uri.query[j][1])

C12_Witness ==
  /\ uri # NoUri
  /\ options.client_id.t = "null"
  /\ options.scope.t = "string"
  /\ options.redirect_uri.t = "undefined"
  /\ Len(uri.query) = 3

(***************************************************************************)
(* C13.  Once a request has settled the promise (resolved or rejected it), *)
(* the timer is cancelled and the timeout callback never fires afterwards. *)
(***************************************************************************)
C13_NoTimeoutAfterRequest ==
  /\ [](settledBy.kind = "request" => timer.state = "cleared")
  /\ [][settledBy.kind = "request" => timer'.state # "fired"]_vars

C13_Witness ==
  /\ settledBy.kind = "request"
  /\ result.status = "rejected"
  /\ timer.state = "cleared"
  /\ delivered = 2

(***************************************************************************)
(* C14.  After the timeout has rejected the flow the server is closed, and *)
(* no request is processed any more: no response is written and            *)
(* server.close() is not called again.                                     *)
(***************************************************************************)
C14_NoHandlerWorkAfterTimeout ==
  /\ [](timer.state = "fired" => ~server.listening)
  /\ [][timer.state = "fired" =>
          /\ responses' = responses
          /\ server'.closeCalls = server.closeCalls]_vars

(***************************************************************************)
(* C15.  The promise settles at most once: once settled, no request and    *)
(* no timer event changes its outcome or value; a flow a request without   *)
(* the session id has settled is rejected, whatever arrives later.         *)
(***************************************************************************)
C15_SettledOnceAndFinal ==
  /\ [][result.status # "pending" => result' = result]_vars
  /\ [](settledBy.kind = "request" /\ ~CarriesValid(settledBy.req.query, id)
          => result.status = "rejected")

C15_Witness ==
  /\ settledBy.kind = "request"
  /\ CarriesOtherId(settledBy.req.query, id)
  /\ delivered = 2
  /\ CarriesValid(lastReq.query, id)
  /\ Len(responses) = 2
  /\ result.status = "rejected"

(***************************************************************************)
(* C16.  server.close() is never called before the response of the request *)
(* being handled has been ended: every call of close follows an ended      *)
(* response, on the success path and on the failure paths.                 *)
(***************************************************************************)
C16_ResponseEndedBeforeClose ==
  /\ ~server.earlyClose
  /\ server.closeCalls <= Len(responses)
  /\ \A i \in DOMAIN responses : responses[i].ended

C16_Witness ==
  /\ server.closeCalls = 1
  /\ settledBy.kind = "request"
  /\ result.status = "rejected"
  /\ LastResponse(responses).ended

(***************************************************************************)
(* C17.  The page a request is answered with matches its outcome: the      *)
(* confirmation "You are now signed in" goes to the requests that pass the *)
(* session validation, and only to them.                                   *)
(***************************************************************************)
C17_PageMatchesOutcome ==
  [][Len(responses') = Len(responses) + 1 =>
       (LastResponse(responses').body = "You are now signed in, please close this window.\n"
          <=> CarriesValid(PayloadOf(lastReq'), id))]_vars

(***************************************************************************)
(* C18.  The server-start promise resolves only once the 'listening' event *)
(* has fired (the port is assigned), and login builds the URL with that    *)
(* port, arms the timer and registers its listener only after that.        *)
(***************************************************************************)
C18_NothingBeforeListening ==
  /\ pc # "awaitServer" => server.port \in Ports
  /\ (timer.state # "none" \/ uri # NoUri \/ server.hasHandler) =>
       /\ pc \in {"waiting", "crashed"}
       /\ server.port \in Ports
       /\ <<"port", ToString(server.port)>> \in Range(uri.query)
       /\ timer.state # "none"
       /\ server.hasHandler

C18_Witness ==
  /\ pc = "waiting"
  /\ timer.state = "armed"
  /\ server.listening
  /\ <<"port", ToString(server.port)>> \in Range(uri.query)

(***************************************************************************)
(* C20.  The timer is never cancelled and the server never closed while    *)
(* the promise is pending, and a login that waits for a request eventually *)
(* settles.  Checked under FairSpec.                                       *)
(***************************************************************************)
C20_NeverLeftUnresolved ==
  /\ []((timer.state = "cleared" \/ server.closeCalls > 0) => result.status # "pending")
  /\ (pc = "waiting") ~> (result.status # "pending")

(***************************************************************************)
(* C11.  getImsCliOAuthUrl returns the endpoint of the explicit            *)
(* environment when one is given, else that of the globally configured     *)
(* environment, else that of PROD; the two endpoints differ.  Checked      *)
(* under HelperSpec.                                                       *)
(***************************************************************************)
C11_EnvPrecedence ==
  /\ IMS_CLI_OAUTH_URL["stage"] # IMS_CLI_OAUTH_URL["prod"]
  /\ probe.called =>
       probe.url = IMS_CLI_OAUTH_URL[IF probe.env.t = "string" THEN probe.env.v
                                     ELSE IF cliEnv.t = "string" THEN cliEnv.v
                                     ELSE "prod"]

C11_Witness ==
  /\ probe.called
  /\ probe.env = Str("stage")
  /\ cliEnv = Str("prod")
  /\ probe.url = IMS_CLI_OAUTH_URL["stage"]

(***************************************************************************)
(* C19.  handlePOST settles nothing, writes nothing and signals nothing    *)
(* before the 'end' of the body, and after it the outcome is the one of    *)
(* the whole body text, however many chunks delivered it.  Checked under   *)
(* HelperSpec.                                                             *)
(***************************************************************************)
C19_PostWaitsForEndAndIgnoresChunking ==
  /\ ~post.ended =>
       /\ post.result.status = "pending"
       /\ ~post.response.ended
       /\ post.doneCalls = 0
  /\ post.ended =>
       /\ post.result = HandlerOutcome(QsParse(UrlDecode(post.wire)), post.id)
       /\ CarriesValid(UrlDecode(post.wire), post.id) <=> post.result.status = "resolved"
       /\ post.doneCalls = 1

C19_Witness ==
  /\ post.ended
  /\ post.chunks >= 3
  /\ post.result.status = "resolved"

====
